---- MODULE Spec2Model ----
(***************************************************************************)
(* StringPool / StringBlock (src/StringPool.h): a pool of fixed-capacity   *)
(* blocks kept sorted by free space, best-fit selection of a block for     *)
(* each added string, and a merging constructor.                           *)
(*                                                                         *)
(* Iterators into the vector of blocks are 1-based indices; blocks.end()   *)
(* is Len(blocks) + 1.  A buffer (new T[n]) is an entry of `heap`, named   *)
(* <<p, k>>: the k-th buffer allocated through pool p.  A pointer is a     *)
(* pair (buffer, offset); ExternalStorage is storage of the caller.        *)
(***************************************************************************)
EXTENDS Integers, Sequences, FiniteSets, TLC

VARIABLES
    NullTerminateStrings,   \* the template parameter, fixed per behaviour
    pools,                  \* pool id -> [status, blocks, defaultBlockCapacity]
    heap,                   \* buffer id -> [size, cells, live]
    views,                  \* the views add has returned whose pool still exists
    standalone,             \* block id -> a StringBlock constructed directly
    threads,                \* thread id -> [pc, j, it, addedString]
    poolMutex,              \* the thread holding poolMutex, or NoThread
    strings                 \* the vector the threads push the returned views to

vars == <<NullTerminateStrings, pools, heap, views,
          standalone, threads, poolMutex, strings>>

\* what construction, add, merging and destruction of pools leave alone
apart == <<standalone, threads, poolMutex, strings>>

---------------------------------------------------------------------------
(* Bounds of the model *)

SizeBits == 16            \* width of std::size_t, scaled down
MaxLen == 3               \* most units a modelled string needs in a block
SmallCapacity == 4        \* a small capacity handed to the constructor
MaxPools == 3             \* pool objects in one behaviour of Spec
MaxBuffers == 3           \* buffers allocated in one behaviour
MaxViews == 4             \* views held at one time
MaxBlocks == 2            \* StringBlock objects constructed directly
MaxThreads == 3           \* threads sharing one pool
AddsPerThread == 2        \* calls of add each thread makes
MaxRepairBlocks == 4      \* blocks of a sequence handed to the repair step
MaxFree == 3              \* most free space of a block of such a sequence

SizeMax == 2^SizeBits - 1                 \* numeric_limits<size_t>::max()
Wrap(n) == n % (SizeMax + 1)              \* size_t arithmetic
Uninit == -1                              \* a cell no one has written yet
ExternalStorage == <<0, 0>>               \* the caller's own storage
NullCharStorage == <<0, 1>>               \* StringBlock::nullChar
PoolIds == 1..(MaxPools + 1)              \* SpecMerge has one pool more
BlockIds == 1..MaxBlocks
ThreadIds == 1..MaxThreads
NoThread == 0
Direct == MaxPools + 2                    \* in place of a pool id: no pool

Max(a, b) == IF a >= b THEN a ELSE b

(* The strings callers pass: one of each length, with alternating units    *)
(* whose phase depends on the length, so that a shifted copy and a string  *)
(* of another length written over it both differ from the original.        *)
StringOf(len) == [i \in 1..len |-> ((i + len) % 2) + 1]
InputStrings == {StringOf(len) : len \in 0..MaxLen}

---------------------------------------------------------------------------
(* StringBlock *)

\* the object size limit of the build: new T[n] throws for any larger n
MaxAlloc == SizeMax \div 2

\* new T[elementCount] can return a buffer (it may still throw bad_alloc)
AllocCanSucceed(elementCount) == elementCount <= MaxAlloc

\* StringBlock(elementCount): memory{new T[elementCount]}, size, usedSpace = 0
StringBlock(buffer, elementCount) ==
    [memory |-> buffer, size |-> elementCount, usedSpace |-> 0]

\* (variant) every length taken for valid
isStringLengthValidAlways(length) == TRUE

isStringLengthValid(length) ==
    IF NullTerminateStrings THEN length # SizeMax ELSE TRUE

\* (variant) the space required without the unit of the terminator
getSpaceRequiredWithoutTerminator(length) == length

getSpaceRequiredToStoreStringOfLength(length) ==
    IF NullTerminateStrings
    THEN (IF isStringLengthValid(length) THEN Wrap(length + 1) ELSE length)
    ELSE length

getFreeSpace(block) == Wrap(block.size - block.usedSpace + SizeMax + 1)

\* (variant) canTakeStringOfLength without the comparison with the free space
canTakeStringOfLengthIgnoringSpace(block, length) == isStringLengthValid(length)

canTakeStringOfLength(block, length) ==
    /\ getFreeSpace(block) >= getSpaceRequiredToStoreStringOfLength(length)
    /\ isStringLengthValid(length)

\* the view addString returns for a string the block cannot take: &nullChar
NullCharView == [buf |-> NullCharStorage, off |-> 0, len |-> 0]

\* what addString stores: the string's units, then 0 if null-terminating
StoredUnits(chars) == IF NullTerminateStrings THEN chars \o <<0>> ELSE chars

\* (variant) addString returning the view it was given instead of the copy
addStringReturningArgument(block, string, chars) ==
    IF ~canTakeStringOfLength(block, string.len)
    THEN [ok |-> FALSE, block |-> block, dest |-> 0, data |-> <<>>,
          view |-> NullCharView]
    ELSE [ok |-> TRUE,
          block |-> [block EXCEPT !.usedSpace =
                        Wrap(@ + getSpaceRequiredToStoreStringOfLength(string.len))],
          dest |-> block.usedSpace,
          data |-> StoredUnits(chars),
          view |-> [buf |-> string.buf, off |-> string.off, len |-> string.len]]

\* (variant) addString with destination = memory.get()
addStringAtStartOfBuffer(block, string, chars) ==
    IF ~canTakeStringOfLength(block, string.len)
    THEN [ok |-> FALSE, block |-> block, dest |-> 0, data |-> <<>>,
          view |-> NullCharView]
    ELSE [ok |-> TRUE,
          block |-> [block EXCEPT !.usedSpace =
                        Wrap(@ + getSpaceRequiredToStoreStringOfLength(string.len))],
          dest |-> 0,
          data |-> StoredUnits(chars),
          view |-> [buf |-> block.memory, off |-> 0, len |-> string.len]]

\* (variant) addString with usedSpace += string.length()
addStringCountingNoTerminator(block, string, chars) ==
    IF ~canTakeStringOfLength(block, string.len)
    THEN [ok |-> FALSE, block |-> block, dest |-> 0, data |-> <<>>,
          view |-> NullCharView]
    ELSE [ok |-> TRUE,
          block |-> [block EXCEPT !.usedSpace = Wrap(@ + string.len)],
          dest |-> block.usedSpace,
          data |-> StoredUnits(chars),
          view |-> [buf |-> block.memory, off |-> block.usedSpace,
                    len |-> string.len]]

\* (variant) addString without the test of canTakeStringOfLength
addStringWithoutCapacityTest(block, string, chars) ==
    [ok |-> TRUE,
     block |-> [block EXCEPT !.usedSpace =
                   Wrap(@ + getSpaceRequiredToStoreStringOfLength(string.len))],
     dest |-> block.usedSpace,
     data |-> StoredUnits(chars),
     view |-> [buf |-> block.memory, off |-> block.usedSpace,
               len |-> string.len]]

\* addString(string): [ok] is false when the capacity assertion is reached;
\* otherwise `data` is written at offset `dest` of the block's buffer.
addString(block, string, chars) ==
    IF ~canTakeStringOfLength(block, string.len)
    THEN [ok |-> FALSE, block |-> block, dest |-> 0, data |-> <<>>,
          view |-> NullCharView]
    ELSE [ok |-> TRUE,
          block |-> [block EXCEPT !.usedSpace =
                        Wrap(@ + getSpaceRequiredToStoreStringOfLength(string.len))],
          dest |-> block.usedSpace,
          data |-> StoredUnits(chars),
          view |-> [buf |-> block.memory, off |-> block.usedSpace,
                    len |-> string.len]]

\* (variant) swap without std::swap(a.usedSpace, b.usedSpace)
swapBlocksKeepingUsedSpace(a, b) ==
    << [memory |-> b.memory, size |-> b.size, usedSpace |-> a.usedSpace],
       [memory |-> a.memory, size |-> a.size, usedSpace |-> b.usedSpace] >>

\* (variant) swap without a.memory.swap(b.memory)
swapBlocksKeepingMemory(a, b) ==
    << [memory |-> a.memory, size |-> b.size, usedSpace |-> b.usedSpace],
       [memory |-> b.memory, size |-> a.size, usedSpace |-> a.usedSpace] >>

\* swap(a, b): the pair (a, b) afterwards
swapBlocks(a, b) ==
    << [memory |-> b.memory, size |-> b.size, usedSpace |-> b.usedSpace],
       [memory |-> a.memory, size |-> a.size, usedSpace |-> a.usedSpace] >>

\* (variant) *i = *j in place of the swap
iter_swapAssigning(blocks, i, j) == [blocks EXCEPT ![i] = blocks[j]]

\* std::iter_swap(i, j) on the vector of blocks
iter_swap(blocks, i, j) ==
    LET sw == swapBlocks(blocks[i], blocks[j])
    IN  [blocks EXCEPT ![i] = sw[1], ![j] = sw[2]]

---------------------------------------------------------------------------
(* Memory *)

\* std::copy / the terminator store: `data` written at cells off .. off+Len-1
WriteCells(cells, off, data) ==
    [i \in 1..Max(Len(cells), off + Len(data)) |->
        IF i > off /\ i <= off + Len(data) THEN data[i - off]
        ELSE IF i <= Len(cells) THEN cells[i]
        ELSE Uninit]

\* the units a view (buf, off, len) reads from the heap h
ReadCells(h, buf, off, len) ==
    [i \in 1..len |->
        IF buf \in DOMAIN h /\ h[buf].live /\ off + i <= Len(h[buf].cells)
        THEN h[buf].cells[off + i]
        ELSE Uninit]

\* the units std::copy reads from the caller's string
SourceChars(string) ==
    IF string.buf = ExternalStorage THEN string.chars
    ELSE ReadCells(heap, string.buf, string.off, string.len)

---------------------------------------------------------------------------
(* StringPool: block selection *)

\* (variant) the shortcut taken without asking the block before the last
getFirstBlockAlwaysLast(blocks, length) ==
    IF Len(blocks) > 2 THEN Len(blocks) ELSE 1

\* (variant) the shortcut taken when the second-to-last block can take the string
getFirstBlockLastWhenSecondToLastCapable(blocks, length) ==
    IF Len(blocks) > 2 /\ canTakeStringOfLength(blocks[Len(blocks) - 1], length)
    THEN Len(blocks)
    ELSE 1

getFirstBlockMaybeCapableOfStoringStringOfLength(blocks, length) ==
    IF Len(blocks) > 2 /\ ~canTakeStringOfLength(blocks[Len(blocks) - 1], length)
    THEN Len(blocks)
    ELSE 1

\* std::lower_bound(first, first + count, true, !canTake): the partition point
RECURSIVE lower_bound(_, _, _, _)
lower_bound(blocks, first, count, length) ==
    IF count <= 0 THEN first
    ELSE LET half == count \div 2
             mid == first + half
         IN  IF ~canTakeStringOfLength(blocks[mid], length)
             THEN lower_bound(blocks, mid + 1, count - half - 1, length)
             ELSE lower_bound(blocks, first, half, length)

\* (variant) a search that never finds a block
findBlockNeverFinds(blocks, length) == Len(blocks) + 1

\* (variant) the first candidate returned without the binary search
findBlockWithoutSearch(blocks, length) ==
    IF blocks = <<>> THEN 1
    ELSE getFirstBlockMaybeCapableOfStoringStringOfLength(blocks, length)

findBlockCapableOfStoringStringOfLength(blocks, length) ==
    LET first == getFirstBlockMaybeCapableOfStoringStringOfLength(blocks, length)
    IN  lower_bound(blocks, first, Len(blocks) + 1 - first, length)

\* (variant) the capacity of a new block without the std::max
newBlockCapacityStandardOnly(defaultBlockCapacity, length) == defaultBlockCapacity

\* the capacity createBlockCapableOfStoringStringOfLength asks for
newBlockCapacity(defaultBlockCapacity, length) ==
    Max(defaultBlockCapacity, getSpaceRequiredToStoreStringOfLength(length))

---------------------------------------------------------------------------
(* StringPool: order repair *)

shouldReorderBlocksAfterAddingStringToBlock(blocks, block) ==
    /\ block # 1
    /\ getFreeSpace(blocks[block]) < getFreeSpace(blocks[block - 1])

\* std::upper_bound(first, first + count, freeSpace, freeSpace < block.free)
RECURSIVE upper_bound(_, _, _, _)
upper_bound(blocks, first, count, freeSpace) ==
    IF count <= 0 THEN first
    ELSE LET half == count \div 2
             mid == first + half
         IN  IF freeSpace < getFreeSpace(blocks[mid])
             THEN upper_bound(blocks, first, half, freeSpace)
             ELSE upper_bound(blocks, mid + 1, count - half - 1, freeSpace)

\* while (it != block) { iter_swap(it, block); ++it; }
RECURSIVE swapLoop(_, _, _)
swapLoop(blocks, it, block) ==
    IF it = block THEN blocks
    ELSE swapLoop(iter_swap(blocks, it, block), it + 1, block)

\* (variant) the repair with the single swap in every case
reorderAlwaysSingleSwap(blocks, block) ==
    LET it == upper_bound(blocks, 1, block - 1, getFreeSpace(blocks[block]))
    IN  IF it # block THEN iter_swap(blocks, it, block) ELSE blocks

reorderBlocksAfterAddingStringToBlock(blocks, block) ==
    LET it == upper_bound(blocks, 1, block - 1, getFreeSpace(blocks[block]))
    IN  IF it # block
        THEN IF getFreeSpace(blocks[it]) = getFreeSpace(blocks[block - 1])
             THEN iter_swap(blocks, it, block)
             ELSE swapLoop(blocks, it, block)
        ELSE blocks

blockChanged(blocks, block) ==
    IF shouldReorderBlocksAfterAddingStringToBlock(blocks, block)
    THEN reorderBlocksAfterAddingStringToBlock(blocks, block)
    ELSE blocks

---------------------------------------------------------------------------
(* StringPool: merging constructor *)

\* the stable merge std::inplace_merge performs on two sorted runs: a block
\* of the second run goes first only when it has strictly less free space
RECURSIVE mergeRuns(_, _)
mergeRuns(a, b) ==
    IF a = <<>> THEN b
    ELSE IF b = <<>> THEN a
    ELSE IF getFreeSpace(Head(b)) < getFreeSpace(Head(a))
         THEN <<Head(b)>> \o mergeRuns(a, Tail(b))
         ELSE <<Head(a)>> \o mergeRuns(Tail(a), b)

\* (variant) the fold without std::inplace_merge
inplace_merge_skipped(blocks, middle) == blocks

\* std::inplace_merge(begin, middle, end, a.free < b.free)
inplace_merge(blocks, middle) ==
    mergeRuns(SubSeq(blocks, 1, middle - 1), SubSeq(blocks, middle, Len(blocks)))

\* (variant) the fold without blocks.insert
insertAndMergeWithoutInsert(blocks, moved) == inplace_merge(blocks, Len(blocks) + 1)

\* one step of the fold: insert the pool's blocks at the end, merge the runs
insertAndMerge(blocks, moved) == inplace_merge(blocks \o moved, Len(blocks) + 1)

\* the fold over `pools...`, left to right, from source k on
RECURSIVE mergeSources(_, _, _)
mergeSources(blocks, sources, k) ==
    IF k > Len(sources) THEN blocks
    ELSE mergeSources(insertAndMerge(blocks, pools[sources[k]].blocks), sources, k + 1)

\* blocks.size() + (pools.blocks.size() + ...)
RECURSIVE sumOfBlockCounts(_, _)
sumOfBlockCounts(sources, k) ==
    IF k > Len(sources) THEN 0
    ELSE Len(pools[sources[k]].blocks) + sumOfBlockCounts(sources, k + 1)

\* argument lists of the merging constructor: two or more distinct live pools
SourceLists ==
    {s \in UNION {[1..n -> PoolIds] : n \in 2..MaxPools} :
        /\ \A i \in DOMAIN s : pools[s[i]].status = "live"
        /\ \A i, j \in DOMAIN s : i # j => s[i] # s[j]}

Range(f) == {f[i] : i \in DOMAIN f}

---------------------------------------------------------------------------
(* StringPool: add *)

\* createBlockCapableOfStoringStringOfLength: emplace_back a block whose
\* buffer is the fresh buffer `buffer`
createBlockCapableOfStoringStringOfLength(blocks, defaultBlockCapacity, buffer, length) ==
    Append(blocks, StringBlock(buffer, newBlockCapacity(defaultBlockCapacity, length)))

\* findOrCreateBlockCapableOfStoringStringOfLength: the vector afterwards,
\* the iterator returned, and whether a block was created
findOrCreateBlockCapableOfStoringStringOfLength(blocks, defaultBlockCapacity, buffer, length) ==
    LET found == findBlockCapableOfStoringStringOfLength(blocks, length)
    IN  IF found # Len(blocks) + 1
        THEN [blocks |-> blocks, it |-> found, created |-> FALSE]
        ELSE [blocks |-> createBlockCapableOfStoringStringOfLength(
                            blocks, defaultBlockCapacity, buffer, length),
              it |-> Len(blocks) + 1, created |-> TRUE]

\* addStringToBlock: block->addString(string); blockChanged(block)
addStringToBlock(blocks, block, string, chars) ==
    LET r == addString(blocks[block], string, chars)
    IN  [blocks |-> blockChanged([blocks EXCEPT ![block] = r.block], block),
         ok |-> r.ok, dest |-> r.dest, data |-> r.data, view |-> r.view,
         memory |-> r.block.memory]

---------------------------------------------------------------------------
(* State *)

DefaultBlockCapacity == 8192

NoPool == [status |-> "none", blocks |-> <<>>, defaultBlockCapacity |-> 0]

\* a StringBlock not constructed yet
NoBlock == [memory |-> ExternalStorage, size |-> 0, usedSpace |-> 0]

\* a thread not started yet
NoCall == [pc |-> "start", j |-> 0, it |-> 0, addedString |-> NullCharView]

\* the buffers the blocks of a vector own
BuffersOf(blocks) == {blocks[i].memory : i \in DOMAIN blocks}

\* a buffer after delete[]: its contents are gone
Freed == [size |-> 0, cells |-> <<>>, live |-> FALSE]

\* ~vector<StringBlock>: every block's unique_ptr deletes its buffer
Release(h, blocks) ==
    [b \in DOMAIN h |-> IF b \in BuffersOf(blocks) THEN Freed ELSE h[b]]

\* (variant) a source without pools.blocks.clear(): it keeps the blocks that
\* were moved from, which own no buffer
movedFromWithoutClear(pool) ==
    [pool EXCEPT !.blocks = [i \in DOMAIN @ |-> [@[i] EXCEPT !.memory = NoBlock.memory]],
                 !.status = "moved"]

\* (variant) a source whose blocks were copied, not moved out
movedFromKeepingBlocks(pool) == [pool EXCEPT !.status = "moved"]

\* a source of the merging constructor afterwards: its blocks were moved out
\* (std::move(largestPool.blocks); move iterators, then pools.blocks.clear())
movedFrom(pool) == [pool EXCEPT !.blocks = <<>>, !.status = "moved"]

getBlockCount(pool) == Len(pool.blocks)

\* the first pool id not yet used for an object
FreshPool(p) ==
    /\ pools[p].status = "none"
    /\ \A q \in PoolIds : q < p => pools[q].status # "none"

\* what callers pass to add: a string in their own storage, a view a pool
\* returned earlier, or a view whose length is the maximum size value
CallerStrings ==
    {[buf |-> ExternalStorage, off |-> 0, len |-> Len(c), chars |-> c] :
        c \in {d \in InputStrings :
                getSpaceRequiredToStoreStringOfLength(Len(d)) <= MaxLen}}
    \cup {[buf |-> v.buf, off |-> v.off, len |-> v.len, chars |-> <<>>] :
            v \in views}
    \cup {[buf |-> ExternalStorage, off |-> 0, len |-> SizeMax, chars |-> <<>>]}

Init ==
    /\ NullTerminateStrings \in BOOLEAN
    /\ pools = [p \in PoolIds |-> NoPool]
    /\ heap = <<>>
    /\ views = {}
    /\ standalone = [k \in BlockIds |-> NoBlock]
    /\ threads = [t \in ThreadIds |-> NoCall]
    /\ poolMutex = NoThread
    /\ strings = <<>>

---------------------------------------------------------------------------
(* Operations *)

\* (variant) a constructor that leaves the member at its default
ConstructIgnoringCapacity(p, capacity) ==
    /\ FreshPool(p)
    /\ pools' = [pools EXCEPT ![p] =
            [status |-> "live", blocks |-> <<>>,
             defaultBlockCapacity |-> DefaultBlockCapacity]]
    /\ UNCHANGED <<NullTerminateStrings, heap, views, apart>>

\* explicit StringPool(std::size_t defaultBlockCapacity)
Construct(p, capacity) ==
    /\ FreshPool(p)
    /\ pools' = [pools EXCEPT ![p] =
            [status |-> "live", blocks |-> <<>>,
             defaultBlockCapacity |-> capacity]]
    /\ UNCHANGED <<NullTerminateStrings, heap, views, apart>>

\* the buffer the next new T[n] made through pool p returns
FreshBuffer(p) == <<p, Cardinality({b \in DOMAIN heap : b[1] = p}) + 1>>

\* the steps of add(string) on pool p, from the state before the call
AddSelection(p, string) ==
    findOrCreateBlockCapableOfStoringStringOfLength(
        pools[p].blocks, pools[p].defaultBlockCapacity, FreshBuffer(p), string.len)

AddResult(p, string) ==
    LET sel == AddSelection(p, string)
    IN  addStringToBlock(sel.blocks, sel.it, string, SourceChars(string))

\* the view record the caller holds after add(string) on pool p
IssuedView(p, string) ==
    LET r == AddResult(p, string)
    IN  [buf |-> r.view.buf, off |-> r.view.off, len |-> r.view.len,
         str |-> SourceChars(string), issuer |-> p, pool |-> p]

\* add(string) returning a view: find or create a block, addString, blockChanged
add(p, string) ==
    /\ pools[p].status = "live"
    /\ \E sel \in {AddSelection(p, string)} :
       \E chars \in {SourceChars(string)} :
       \E r \in {addStringToBlock(sel.blocks, sel.it, string, chars)} :
       \E heap1 \in {IF sel.created
                     THEN heap @@ (FreshBuffer(p) :>
                                    [size |-> sel.blocks[sel.it].size,
                                     cells |-> <<>>, live |-> TRUE])
                     ELSE heap} :
            /\ sel.created =>
                    /\ AllocCanSucceed(sel.blocks[sel.it].size)
                    /\ Cardinality(DOMAIN heap) < MaxBuffers
            /\ pools' = [pools EXCEPT ![p].blocks = r.blocks]
            /\ heap' = IF r.ok
                       THEN [heap1 EXCEPT ![r.memory].cells =
                                WriteCells(@, r.dest, r.data)]
                       ELSE heap1
            /\ views' = views \cup
                    {[buf |-> r.view.buf, off |-> r.view.off, len |-> r.view.len,
                      str |-> chars, issuer |-> p, pool |-> p]}
    /\ UNCHANGED <<NullTerminateStrings, apart>>

\* (variant) an element appended before its buffer is allocated, left behind
\* without a buffer when the allocation throws
emplace_back_leavingBlock(blocks, elementCount) ==
    Append(blocks, [memory |-> NoBlock.memory, size |-> elementCount,
                    usedSpace |-> 0])

\* blocks.emplace_back(elementCount) when the vector's growth or the
\* constructor's new T[elementCount] throws: the vector is as it was
emplace_back_throwing(blocks, elementCount) == blocks

\* add(string) when no block can take the string and creating one throws
\* std::bad_alloc (the vector's growth or new T[capacity]): emplace_back has
\* no effect, the exception leaves add
addThrows(p, string) ==
    /\ pools[p].status = "live"
    /\ AddSelection(p, string).created
    /\ pools' = [pools EXCEPT ![p].blocks =
            emplace_back_throwing(@,
                newBlockCapacity(pools[p].defaultBlockCapacity, string.len))]
    /\ UNCHANGED <<NullTerminateStrings, heap, views, apart>>

\* (variant) a merging constructor that takes largestPool's standard capacity
MergeTakingCapacity(p, sources) ==
    /\ FreshPool(p)
    /\ pools' = [q \in PoolIds |->
            IF q = p
            THEN [status |-> "live",
                  blocks |-> mergeSources(pools[sources[1]].blocks, sources, 2),
                  defaultBlockCapacity |-> pools[sources[1]].defaultBlockCapacity]
            ELSE IF q \in Range(sources)
            THEN movedFrom(pools[q])
            ELSE pools[q]]
    /\ views' = {IF v.pool \in Range(sources) THEN [v EXCEPT !.pool = p] ELSE v :
                    v \in views}
    /\ UNCHANGED <<NullTerminateStrings, heap, apart>>

\* StringPool(StringPool&& largestPool, Pools&&... pools) constructing pool p
Merge(p, sources) ==
    /\ FreshPool(p)
    /\ pools' = [q \in PoolIds |->
            IF q = p
            THEN [status |-> "live",
                  blocks |-> mergeSources(pools[sources[1]].blocks, sources, 2),
                  defaultBlockCapacity |-> DefaultBlockCapacity]
            ELSE IF q \in Range(sources)
            THEN movedFrom(pools[q])
            ELSE pools[q]]
    /\ views' = {IF v.pool \in Range(sources) THEN [v EXCEPT !.pool = p] ELSE v :
                    v \in views}
    /\ UNCHANGED <<NullTerminateStrings, heap, apart>>

\* the merging constructor when blocks.reserve throws: the member `blocks`,
\* already holding largestPool's blocks, is destroyed with them
MergeThrows(sources) ==
    /\ sumOfBlockCounts(sources, 2) > 0
    /\ pools' = [pools EXCEPT ![sources[1]] = movedFrom(@)]
    /\ heap' = Release(heap, pools[sources[1]].blocks)
    /\ views' = {v \in views : v.pool # sources[1]}
    /\ UNCHANGED <<NullTerminateStrings, apart>>

\* ~StringPool()
Destroy(p) ==
    /\ pools[p].status \in {"live", "moved"}
    /\ pools' = [pools EXCEPT ![p] = [NoPool EXCEPT !.status = "dead"]]
    /\ heap' = Release(heap, pools[p].blocks)
    /\ views' = {v \in views : v.pool # p}
    /\ UNCHANGED <<NullTerminateStrings, apart>>

\* Spec: construction, add and the merging constructor, on MaxPools pools
Next ==
    \/ \E p \in 1..MaxPools, capacity \in {0, SmallCapacity} : Construct(p, capacity)
    \/ \E p \in 1..MaxPools, string \in CallerStrings :
            Cardinality(views) < MaxViews /\ add(p, string)
    \/ \E p \in 1..MaxPools, string \in CallerStrings : addThrows(p, string)
    \/ \E p \in 1..MaxPools, sources \in SourceLists : Merge(p, sources)

Spec == Init /\ [][Next]_vars

\* SpecMerge: one pool more, so that three pools of the same standard capacity
\* can be merged into a fourth
NextMerge ==
    \/ \E p \in PoolIds : Construct(p, SmallCapacity)
    \/ \E p \in PoolIds, string \in CallerStrings :
            Cardinality(views) < MaxViews /\ add(p, string)
    \/ \E p \in PoolIds, sources \in SourceLists : Merge(p, sources)

SpecMerge == Init /\ [][NextMerge]_vars

\* SpecLifetime: Spec with destruction and the throwing merging constructor,
\* and one view less
NextLifetime ==
    \/ \E p \in 1..MaxPools, capacity \in {0, SmallCapacity} : Construct(p, capacity)
    \/ \E p \in 1..MaxPools, string \in CallerStrings :
            Cardinality(views) < MaxViews - 1 /\ add(p, string)
    \/ \E p \in 1..MaxPools, string \in CallerStrings : addThrows(p, string)
    \/ \E p \in 1..MaxPools, sources \in SourceLists : Merge(p, sources)
    \/ \E sources \in SourceLists : MergeThrows(sources)
    \/ \E p \in 1..MaxPools : Destroy(p)

SpecLifetime == Init /\ [][NextLifetime]_vars

---------------------------------------------------------------------------
(* The standard block capacity read and set (getStandardBlockCapacity and
   setStandardBlockCapacity are called by Tests/StringPoolTests.cpp; the
   header under src/ does not define them) *)

\* pool.getStandardBlockCapacity()
getStandardBlockCapacity(pool) == pool.defaultBlockCapacity

\* pool.setStandardBlockCapacity(capacity)
setStandardBlockCapacity(p, capacity) ==
    /\ pools[p].status = "live"
    /\ pools' = [pools EXCEPT ![p].defaultBlockCapacity = capacity]
    /\ UNCHANGED <<NullTerminateStrings, heap, views, apart>>

\* the capacities given to the constructor and to setStandardBlockCapacity
StandardCapacities == {0, SmallCapacity - 1, SmallCapacity, SizeMax}

\* SpecCapacity: pools whose standard block capacity is set between adds
NextCapacity ==
    \/ \E p \in 1..2, capacity \in StandardCapacities : Construct(p, capacity)
    \/ \E p \in 1..2, capacity \in StandardCapacities :
            setStandardBlockCapacity(p, capacity)
    \/ \E p \in 1..2, string \in CallerStrings :
            Cardinality(views) < MaxViews - 1 /\ add(p, string)
    \/ \E p \in 1..2, string \in CallerStrings : addThrows(p, string)

SpecCapacity == Init /\ [][NextCapacity]_vars

---------------------------------------------------------------------------
(* The repair step on any sorted sequence of blocks *)

\* the blocks with the given amounts of free space, each with its own buffer
BlocksWithFreeSpace(free) ==
    [j \in DOMAIN free |->
        [memory |-> <<1, j>>, size |-> MaxFree, usedSpace |-> MaxFree - free[j]]]

\* every sequence of up to MaxRepairBlocks blocks sorted by free space
SortedBlockSequences ==
    {BlocksWithFreeSpace(free) :
        free \in {f \in UNION {[1..n -> 0..MaxFree] : n \in 1..MaxRepairBlocks} :
                    \A j \in 1..(Len(f) - 1) : f[j] <= f[j + 1]}}

\* pool 1 holding any sorted sequence of blocks
InitRepair ==
    /\ NullTerminateStrings \in BOOLEAN
    /\ \E blocks \in SortedBlockSequences :
            pools = [p \in PoolIds |->
                        IF p = 1
                        THEN [status |-> "live", blocks |-> blocks,
                              defaultBlockCapacity |-> 0]
                        ELSE NoPool]
    /\ heap = <<>>
    /\ views = {}
    /\ standalone = [k \in BlockIds |-> NoBlock]
    /\ threads = [t \in ThreadIds |-> NoCall]
    /\ poolMutex = NoThread
    /\ strings = <<>>

\* the sequence after the block was written: its used counter grew
written(blocks, block, units) ==
    [blocks EXCEPT ![block].usedSpace = @ + units]

\* addStringToBlock on any block of pool 1: the block takes units more, then
\* blockChanged(block)
WriteThenBlockChanged(block, units) ==
    /\ block \in DOMAIN pools[1].blocks
    /\ units \in 1..getFreeSpace(pools[1].blocks[block])
    /\ pools' = [pools EXCEPT ![1].blocks =
                    blockChanged(written(@, block, units), block)]
    /\ UNCHANGED <<NullTerminateStrings, heap, views, apart>>

NextRepair ==
    \E block \in 1..MaxRepairBlocks, units \in 1..MaxFree :
        WriteThenBlockChanged(block, units)

SpecRepair == InitRepair /\ [][NextRepair]_vars

---------------------------------------------------------------------------
(* StringBlock objects used directly *)

\* the capacities blocks are constructed with: none, one unit, the longest
\* modelled string, the largest array
BlockCapacities == {0, 1, MaxLen, MaxAlloc}

\* StringBlock block{ capacity }
ConstructBlock(k, capacity) ==
    /\ standalone[k] = NoBlock
    /\ AllocCanSucceed(capacity)
    /\ standalone' = [standalone EXCEPT ![k] =
                        StringBlock(FreshBuffer(Direct), capacity)]
    /\ heap' = heap @@ (FreshBuffer(Direct) :>
                        [size |-> capacity, cells |-> <<>>, live |-> TRUE])
    /\ UNCHANGED <<NullTerminateStrings, pools, views, threads, poolMutex, strings>>

\* StringBlock block{ capacity } when new T[capacity] throws std::bad_alloc:
\* no object comes to exist
ConstructBlockThrows(k, capacity) ==
    /\ standalone[k] = NoBlock
    /\ UNCHANGED vars

\* block.addString(string) on a block used directly (the view is recorded with
\* the block object that returned it as issuer); on a block that cannot
\* take the string (and with the assertion compiled out) nothing is written
\* and the view of nullChar is returned
BlockAddString(k, string) ==
    /\ standalone[k] # NoBlock
    /\ \E r \in {addString(standalone[k], string, SourceChars(string))} :
        /\ standalone' = [standalone EXCEPT ![k] = r.block]
        /\ heap' = IF r.ok
                   THEN [heap EXCEPT ![standalone[k].memory].cells =
                            WriteCells(@, r.dest, r.data)]
                   ELSE heap
        /\ views' = views \cup
                {[buf |-> r.view.buf, off |-> r.view.off, len |-> r.view.len,
                  str |-> IF r.ok THEN SourceChars(string) ELSE <<>>,
                  issuer |-> k, pool |-> Direct]}
    /\ UNCHANGED <<NullTerminateStrings, pools, threads, poolMutex, strings>>

\* swap(a, b) on two blocks used directly
SwapBlocks(a, b) ==
    /\ a # b
    /\ standalone[a] # NoBlock
    /\ standalone[b] # NoBlock
    /\ standalone' = [standalone EXCEPT
            ![a] = swapBlocks(standalone[a], standalone[b])[1],
            ![b] = swapBlocks(standalone[a], standalone[b])[2]]
    /\ UNCHANGED <<NullTerminateStrings, pools, heap, views,
                   threads, poolMutex, strings>>

\* SpecBlock: blocks constructed, appended to and swapped directly
NextBlock ==
    \/ \E k \in BlockIds, capacity \in BlockCapacities : ConstructBlock(k, capacity)
    \/ \E k \in BlockIds, capacity \in BlockCapacities \cup {SizeMax} :
            ConstructBlockThrows(k, capacity)
    \/ \E k \in BlockIds, string \in CallerStrings :
            Cardinality(views) < MaxViews - 1 /\ BlockAddString(k, string)
    \/ \E a \in BlockIds, b \in BlockIds : SwapBlocks(a, b)

SpecBlock == Init /\ [][NextBlock]_vars

---------------------------------------------------------------------------
(* Threads adding to one shared pool under poolMutex (Examples/Threaded.cpp) *)

\* the capacities of the shared pool
ThreadedCapacities == {0, SmallCapacity, DefaultBlockCapacity}

\* the string thread t adds: its length tells the threads apart
ThreadString(t) ==
    [buf |-> ExternalStorage, off |-> 0, len |-> t, chars |-> StringOf(t)]

\* the shared pool is pool 1; no thread has started
InitThreaded ==
    /\ NullTerminateStrings \in BOOLEAN
    /\ \E capacity \in ThreadedCapacities :
            pools = [p \in PoolIds |->
                        IF p = 1
                        THEN [status |-> "live", blocks |-> <<>>,
                              defaultBlockCapacity |-> capacity]
                        ELSE NoPool]
    /\ heap = <<>>
    /\ views = {}
    /\ standalone = [k \in BlockIds |-> NoBlock]
    /\ threads = [t \in ThreadIds |-> NoCall]
    /\ poolMutex = NoThread
    /\ strings = <<>>

\* (variant) a mutex that never makes a thread wait
lockableAlways(mutex) == TRUE

\* std::mutex::lock returns when no thread holds the mutex
lockable(mutex) == mutex = NoThread

\* std::scoped_lock lockForAddingStrings{ poolMutex }
Lock(t) ==
    /\ threads[t].pc = "start"
    /\ lockable(poolMutex)
    /\ poolMutex' = t
    /\ threads' = [threads EXCEPT ![t].pc = "find"]
    /\ UNCHANGED <<NullTerminateStrings, pools, heap, views, standalone, strings>>

\* add, first statement: findOrCreateBlockCapableOfStoringStringOfLength
FindOrCreate(t) ==
    /\ threads[t].pc = "find"
    /\ \E sel \in {AddSelection(1, ThreadString(t))} :
            /\ sel.created => AllocCanSucceed(sel.blocks[sel.it].size)
            /\ pools' = [pools EXCEPT ![1].blocks = sel.blocks]
            /\ heap' = IF sel.created
                       THEN heap @@ (FreshBuffer(1) :>
                                      [size |-> sel.blocks[sel.it].size,
                                       cells |-> <<>>, live |-> TRUE])
                       ELSE heap
            /\ threads' = [threads EXCEPT ![t].it = sel.it, ![t].pc = "write"]
    /\ UNCHANGED <<NullTerminateStrings, views, standalone, poolMutex, strings>>

\* the same statement when creating the block throws std::bad_alloc: the
\* exception leaves the task, which destroys the scoped_lock
FindOrCreateThrows(t) ==
    /\ threads[t].pc = "find"
    /\ AddSelection(1, ThreadString(t)).created
    /\ threads' = [threads EXCEPT ![t].pc = "unlock"]
    /\ UNCHANGED <<NullTerminateStrings, pools, heap, views, standalone,
                   poolMutex, strings>>

\* addStringToBlock, first statement: block->addString(string)
AddString(t) ==
    /\ threads[t].pc = "write"
    /\ \E r \in {addString(pools[1].blocks[threads[t].it], ThreadString(t),
                            ThreadString(t).chars)} :
            /\ pools' = [pools EXCEPT ![1].blocks[threads[t].it] = r.block]
            /\ heap' = IF r.ok
                       THEN [heap EXCEPT ![r.block.memory].cells =
                                WriteCells(@, r.dest, r.data)]
                       ELSE heap
            /\ threads' = [threads EXCEPT ![t].addedString = r.view,
                                          ![t].pc = "changed"]
    /\ UNCHANGED <<NullTerminateStrings, views, standalone, poolMutex, strings>>

\* addStringToBlock, the rest: blockChanged(block); return addedString
BlockChanged(t) ==
    /\ threads[t].pc = "changed"
    /\ pools' = [pools EXCEPT ![1].blocks = blockChanged(@, threads[t].it)]
    /\ views' = views \cup
            {[buf |-> threads[t].addedString.buf,
              off |-> threads[t].addedString.off,
              len |-> threads[t].addedString.len,
              str |-> ThreadString(t).chars, issuer |-> 1, pool |-> 1]}
    /\ threads' = [threads EXCEPT ![t].pc = "push"]
    /\ UNCHANGED <<NullTerminateStrings, heap, standalone, poolMutex, strings>>

\* strings.push_back(...); ++j; the loop condition
PushBack(t) ==
    /\ threads[t].pc = "push"
    /\ strings' = Append(strings, threads[t].addedString)
    /\ threads' = [threads EXCEPT
                        ![t].j = @ + 1,
                        ![t].pc = IF threads[t].j + 1 < AddsPerThread
                                  THEN "find" ELSE "unlock"]
    /\ UNCHANGED <<NullTerminateStrings, pools, heap, views, standalone, poolMutex>>

\* strings.push_back throwing std::bad_alloc: the vector is as it was, the
\* exception leaves the task
PushBackThrows(t) ==
    /\ threads[t].pc = "push"
    /\ threads' = [threads EXCEPT ![t].pc = "unlock"]
    /\ UNCHANGED <<NullTerminateStrings, pools, heap, views, standalone,
                   poolMutex, strings>>

\* ~scoped_lock at the end of the task, or while the exception unwinds it
Unlock(t) ==
    /\ threads[t].pc = "unlock"
    /\ poolMutex' = NoThread
    /\ threads' = [threads EXCEPT ![t].pc = "done"]
    /\ UNCHANGED <<NullTerminateStrings, pools, heap, views, standalone, strings>>

NextThreaded ==
    \E t \in ThreadIds :
        \/ Lock(t)
        \/ FindOrCreate(t)
        \/ FindOrCreateThrows(t)
        \/ AddString(t)
        \/ BlockChanged(t)
        \/ PushBack(t)
        \/ PushBackThrows(t)
        \/ Unlock(t)

SpecThreaded == InitThreaded /\ [][NextThreaded]_vars

---------------------------------------------------------------------------
(* Properties *)

IsSorted(blocks) ==
    \A i \in 1..(Len(blocks) - 1) :
        getFreeSpace(blocks[i]) <= getFreeSpace(blocks[i + 1])

\* the pool through which a buffer was allocated
Allocator(block) == block.memory[1]

\* the view v is the string stored last in the block
StoredLast(block, v) ==
    /\ block.memory = v.buf
    /\ v.off + getSpaceRequiredToStoreStringOfLength(v.len) = block.usedSpace

\* the blocks of pool p were allocated through three other pools
FromThreeSources(p) ==
    /\ Len(pools[p].blocks) = 3
    /\ \A i \in 1..3 : Allocator(pools[p].blocks[i]) # p
    /\ \A i, j \in 1..3 : i # j =>
            Allocator(pools[p].blocks[i]) # Allocator(pools[p].blocks[j])

\* C1: every pool's block sequence is sorted ascending by free space, in every
\* reachable state, the pool built by the merging constructor included.
C1_BlocksSortedByFreeSpace ==
    \A p \in PoolIds : IsSorted(pools[p].blocks)

\* C1 is exercised: a pool merged from three pools, whose blocks have three
\* different amounts of free space, took a string that only its last block
\* could hold, and that block is now the first.
C1_Witness ==
    \E p \in PoolIds : \E v \in views :
        LET blocks == pools[p].blocks IN
        /\ FromThreeSources(p)
        /\ v.issuer = p
        /\ StoredLast(blocks[1], v)
        /\ getSpaceRequiredToStoreStringOfLength(v.len) > getFreeSpace(blocks[3])
        /\ getFreeSpace(blocks[1]) < getFreeSpace(blocks[2])
        /\ getFreeSpace(blocks[2]) < getFreeSpace(blocks[3])

\* a step that changes something, and no pool's blocks but those of pool p:
\* every step of add on pool p that is not a stuttering step is such a step
Touches(p) ==
    /\ vars' # vars
    /\ pools'[p] # pools[p] \/ pools' = pools

\* the step is add(string) on pool p returning a view (which is then among
\* the views held)
AddStep(p, string) ==
    /\ \E v \in views' : v.issuer = p /\ v.pool = p /\ v.len = string.len
    /\ add(p, string)

\* the positions of the blocks that can take a string of the length
Capable(blocks, length) ==
    {i \in DOMAIN blocks : canTakeStringOfLength(blocks[i], length)}

\* the block of the vector that owns the buffer, as a set of positions
Owning(blocks, buf) == {i \in DOMAIN blocks : blocks[i].memory = buf}

\* add(string) on pool p wrote into a capable block of least free space
WritesIntoBestFit(p, string) ==
    LET blocks == pools[p].blocks
        capable == Capable(blocks, string.len)
        v == IssuedView(p, string)
    IN  capable # {} =>
            \E i \in capable :
                /\ \A j \in capable :
                        getFreeSpace(blocks[i]) <= getFreeSpace(blocks[j])
                /\ v.buf = blocks[i].memory
                /\ v.off = blocks[i].usedSpace
                /\ \E k \in Owning(pools'[p].blocks, v.buf) :
                        pools'[p].blocks[k].usedSpace = blocks[i].usedSpace
                            + getSpaceRequiredToStoreStringOfLength(string.len)

\* C2: when some block of the pool can take the string, add writes it into a
\* block whose free space before the write is the least among the capable
\* blocks.
C2_AddUsesBestFit ==
    [][\A p \in PoolIds : Touches(p) =>
            \A string \in CallerStrings :
                AddStep(p, string) => WritesIntoBestFit(p, string)]_vars

\* C2 is exercised: in a pool of three blocks a string was written behind
\* earlier strings of a block although another block had room to spare.
C2_Witness ==
    \E p \in PoolIds : \E v \in views :
        LET blocks == pools[p].blocks IN
        /\ Len(blocks) >= 3
        /\ v.off > 0
        /\ getSpaceRequiredToStoreStringOfLength(v.len) > 0
        /\ \E i, j \in DOMAIN blocks :
            /\ StoredLast(blocks[i], v)
            /\ getFreeSpace(blocks[j]) > getFreeSpace(blocks[i])
                    + getSpaceRequiredToStoreStringOfLength(v.len)

\* the units string occupies in its storage, and the units view v occupies
SameBuffer(v, string) == v.buf = string.buf

Overlap(v, string, units) ==
    /\ SameBuffer(v, string)
    /\ v.off < string.off + units
    /\ string.off < v.off + units

\* the view add(string) on pool p returns: the string's length and contents,
\* inside the used part of a block of p, apart from the string's own storage
ReturnsPoolOwnedCopy(p, string) ==
    LET v == IssuedView(p, string)
        units == getSpaceRequiredToStoreStringOfLength(string.len)
    IN  /\ v \in views'
        /\ v.len = string.len
        /\ ReadCells(heap', v.buf, v.off, v.len) = SourceChars(string)
        /\ v.buf # ExternalStorage
        /\ v.buf # NullCharStorage
        /\ \E k \in Owning(pools'[p].blocks, v.buf) :
                v.off + units <= pools'[p].blocks[k].usedSpace
        /\ ~Overlap(v, string, units)

\* C3: the view add(S) returns has the length and the contents of S and lies
\* in storage owned by a block of the pool, never in the storage of S.
C3_AddReturnsPoolOwnedCopy ==
    [][\A p \in PoolIds : Touches(p) =>
            \A string \in CallerStrings :
                AddStep(p, string) => ReturnsPoolOwnedCopy(p, string)]_vars

\* C3 is exercised: a pool holds two copies of the same non-empty string at
\* two places of one buffer.
C3_Witness ==
    \E v, w \in views :
        /\ v.str # <<>>
        /\ v.str = w.str
        /\ v.buf = w.buf
        /\ v.off # w.off
        /\ ReadCells(heap, v.buf, v.off, v.len) = v.str
        /\ ReadCells(heap, w.buf, w.off, w.len) = v.str

\* view v designates storage of a live buffer that a block of its pool owns,
\* and the units stored there are still those of the string it was issued for
Intact(ps, h, v) ==
    /\ ps[v.pool].status = "live"
    /\ Owning(ps[v.pool].blocks, v.buf) # {}
    /\ v.buf \in DOMAIN h
    /\ h[v.buf].live
    /\ ReadCells(h, v.buf, v.off, getSpaceRequiredToStoreStringOfLength(v.len))
            = StoredUnits(v.str)

\* C4: a view add has returned keeps its buffer, its offset and its contents
\* over every later add on the pool that holds it, whether that add creates a
\* block, writes into the view's block or reorders the blocks.
C4_ViewsStableUnderAdd ==
    [][\A p \in PoolIds : Touches(p) =>
            \A string \in CallerStrings :
                AddStep(p, string) =>
                    \A v \in views :
                        Intact(pools, heap, v) => Intact(pools', heap', v)]_vars

\* C4 is exercised: a view at the start of a buffer is intact although a later
\* string was written behind it in the same buffer, the block was moved to the
\* front of three blocks, and a further block was created by the same pool.
C4_Witness ==
    \E v, w, x \in views :
        /\ v.str # <<>>
        /\ v.off = 0
        /\ w.buf = v.buf
        /\ w.off > 0
        /\ x.pool = v.pool
        /\ x.buf # v.buf
        /\ x.issuer = v.pool
        /\ Len(pools[v.pool].blocks) >= 3
        /\ pools[v.pool].blocks[1].memory = v.buf
        /\ getFreeSpace(pools[v.pool].blocks[1]) < getFreeSpace(pools[v.pool].blocks[2])
        /\ Intact(pools, heap, v)

\* C5: a view issued by a pool that was later passed to the merging constructor
\* designates a buffer owned by a block of the merged pool, with its contents
\* unchanged, after the merge and after the source pools are destroyed.
C5_SourceViewsValidInMergedPool ==
    \A v \in views : v.issuer # v.pool => Intact(pools, heap, v)

\* C5 is exercised: views of two source pools are held, both pools were merged
\* into a third and have been destroyed, and a string was added to the merged
\* pool afterwards.
C5_Witness ==
    \E v, w, x \in views :
        /\ v.pool = w.pool
        /\ x.pool = v.pool
        /\ x.issuer = v.pool
        /\ v.issuer # v.pool
        /\ w.issuer # w.pool
        /\ v.issuer # w.issuer
        /\ v.str # <<>>
        /\ pools[v.issuer].status = "dead"
        /\ pools[w.issuer].status = "dead"

\* the step constructs pool p
Builds(p) == pools[p].status = "none" /\ pools'[p].status = "live"

\* C6: the block count of the pool the merging constructor builds is the sum of
\* the block counts its source pools had just before.
C6_MergedBlockCountIsSum ==
    [][\A p \in PoolIds : Builds(p) =>
            \A sources \in SourceLists :
                Merge(p, sources) =>
                    getBlockCount(pools'[p]) = sumOfBlockCounts(sources, 1)]_vars

\* C6 is exercised: a pool holds three blocks whose buffers were allocated
\* through three other pools, now empty.
C6_Witness ==
    \E p \in PoolIds :
        /\ FromThreeSources(p)
        /\ getBlockCount(pools[p]) = 3
        /\ \A i \in 1..3 :
                getBlockCount(pools[Allocator(pools[p].blocks[i])]) = 0

\* the block count after add(string) on pool p: unchanged when a block could
\* take the string, one more otherwise
CountsOneNewBlockAtMost(p, string) ==
    getBlockCount(pools'[p]) =
        IF Capable(pools[p].blocks, string.len) # {}
        THEN getBlockCount(pools[p])
        ELSE getBlockCount(pools[p]) + 1

\* the step moves blocks into a pool the merging constructor builds
MovesBlocks == \E q \in PoolIds : Builds(q) /\ pools'[q].blocks # <<>>

\* C7: a pool built by the capacity constructor has block count 0; add leaves
\* the block count unchanged when a block of the pool can take the string and
\* otherwise raises it by exactly one; and no step of a pool's construction or
\* of add, returning or throwing, lowers a block count.
C7_BlockCountUnderAdd ==
    [][/\ \A p \in PoolIds : Builds(p) =>
            \A capacity \in {0, SmallCapacity} :
                Construct(p, capacity) => getBlockCount(pools'[p]) = 0
       /\ \A p \in PoolIds : Touches(p) =>
            \A string \in CallerStrings :
                AddStep(p, string) =>
                    CountsOneNewBlockAtMost(p, string)
       /\ ~MovesBlocks =>
            \A p \in PoolIds :
                getBlockCount(pools'[p]) >= getBlockCount(pools[p])]_vars

\* C7 is exercised: a pool built with a capacity holds two blocks it allocated
\* itself and two strings it stored behind earlier ones, so that adds of both
\* kinds happened.
C7_Witness ==
    \E p \in PoolIds :
        /\ pools[p].defaultBlockCapacity = SmallCapacity
        /\ getBlockCount(pools[p]) = 2
        /\ \A i \in 1..2 : Allocator(pools[p].blocks[i]) = p
        /\ Cardinality({v \in views : v.issuer = p /\ v.pool = p /\ v.off > 0}) >= 2

\* the block add(string) created in pool p has the capacity
\* max(defaultBlockCapacity, space required)
CreatedBlockHasCapacity(p, string) ==
    LET required == getSpaceRequiredToStoreStringOfLength(string.len)
        standard == pools[p].defaultBlockCapacity
    IN  Capable(pools[p].blocks, string.len) = {} =>
            /\ FreshBuffer(p) \notin BuffersOf(pools[p].blocks)
            /\ \E k \in Owning(pools'[p].blocks, FreshBuffer(p)) :
                /\ pools'[p].blocks[k].size =
                        IF standard >= required THEN standard ELSE required
                /\ heap'[FreshBuffer(p)].size = pools'[p].blocks[k].size

\* the views pool p issued and still holds
IssuedBy(p) == {v \in views : v.issuer = p /\ v.pool = p}

\* a pool of standard capacity 0 whose strings all needed at least one unit
\* holds one full block per string
OneExactBlockPerString(p) ==
    (/\ pools[p].status = "live"
     /\ pools[p].defaultBlockCapacity = 0
     /\ \A v \in IssuedBy(p) :
            getSpaceRequiredToStoreStringOfLength(v.len) >= 1)
    => /\ getBlockCount(pools[p]) = Cardinality(IssuedBy(p))
       /\ \A i \in DOMAIN pools[p].blocks :
            /\ getFreeSpace(pools[p].blocks[i]) = 0
            /\ \E v \in IssuedBy(p) :
                /\ v.buf = pools[p].blocks[i].memory
                /\ v.off = 0
                /\ pools[p].blocks[i].size =
                        getSpaceRequiredToStoreStringOfLength(v.len)

\* C8: the block add creates when no block can take the string has capacity
\* exactly max(standard block capacity, space required); in a pool of standard
\* capacity 0 every string needing at least one unit gets a block of exactly
\* its size, so that after k such adds there are k blocks, all without free
\* space.
C8_CreatedBlockCapacity ==
    /\ [][\A p \in PoolIds : Touches(p) =>
            \A string \in CallerStrings :
                AddStep(p, string) => CreatedBlockHasCapacity(p, string)]_vars
    /\ [](\A p \in PoolIds : OneExactBlockPerString(p))

\* C8 is exercised: a pool of standard capacity 0 holds three strings of
\* different lengths in three full blocks, and a pool of standard capacity
\* SmallCapacity holds a block of that capacity with free space left.
C8_Witness ==
    /\ \E p \in PoolIds :
        /\ pools[p].status = "live"
        /\ pools[p].defaultBlockCapacity = 0
        /\ getBlockCount(pools[p]) = 3
        /\ Cardinality({v.len : v \in IssuedBy(p)}) = 3
        /\ \A i \in 1..3 : getFreeSpace(pools[p].blocks[i]) = 0
        /\ \A v \in IssuedBy(p) : getSpaceRequiredToStoreStringOfLength(v.len) >= 1

\* string lengths add can be called with, the small ones, those about the
\* standard capacities, those about the largest array and the largest two
ProbeLengths ==
    (0..(SmallCapacity + 1))
    \cup {DefaultBlockCapacity - 1, DefaultBlockCapacity, DefaultBlockCapacity + 1}
    \cup {MaxAlloc - 1, MaxAlloc, MaxAlloc + 1, SizeMax - 1, SizeMax}

\* add on pool p with a string of the length reaches addString only with a
\* block that can take the string: the block it found, or the one it created
\* unless creating it threw
ReachesAddStringWithCapableBlock(p, length) ==
    LET sel == findOrCreateBlockCapableOfStoringStringOfLength(
                    pools[p].blocks, pools[p].defaultBlockCapacity,
                    FreshBuffer(p), length)
        block == sel.blocks[sel.it]
    IN  \/ sel.created /\ ~AllocCanSucceed(block.size)
        \/ /\ canTakeStringOfLength(block, length)
           /\ addString(block, [buf |-> ExternalStorage, off |-> 0,
                                len |-> length, chars |-> <<>>], <<>>).ok

\* C9: in every reachable state and for every string length, the maximum size
\* value included, with and without null termination, the block add passes to
\* addString can take a string of that length, so that no view add returns is
\* the one addString returns for a block that cannot.
C9_AddStringGetsCapableBlock ==
    /\ \A p \in PoolIds : pools[p].status = "live" =>
            \A length \in ProbeLengths :
                ReachesAddStringWithCapableBlock(p, length)
    /\ \A v \in views : v.buf # NullCharStorage

\* C9 is exercised: a null-terminating pool holds three blocks, found a block
\* for a string behind an earlier one, and would have to create a block for a
\* string of the maximum length, which no block of it can take.
C9_Witness ==
    /\ NullTerminateStrings
    /\ \E p \in PoolIds :
        /\ pools[p].status = "live"
        /\ getBlockCount(pools[p]) = 3
        /\ \E v \in views : v.pool = p /\ v.off > 0
        /\ Capable(pools[p].blocks, SizeMax) = {}
        /\ Capable(pools[p].blocks, 1) # {}

\* C10: every block of every pool has used at most its capacity, so that its
\* free space is capacity - used without wrapping, and no unit was written
\* behind the end of a buffer.
C10_UsedWithinCapacity ==
    /\ \A p \in PoolIds : \A i \in DOMAIN pools[p].blocks :
            /\ pools[p].blocks[i].usedSpace <= pools[p].blocks[i].size
            /\ getFreeSpace(pools[p].blocks[i]) =
                    pools[p].blocks[i].size - pools[p].blocks[i].usedSpace
    /\ \A b \in DOMAIN heap : Len(heap[b].cells) <= heap[b].size

\* C10 is exercised: a pool built by the merging constructor holds a block
\* filled to its capacity by two strings and a block with free space.
C10_Witness ==
    \E p \in PoolIds : \E i, j \in DOMAIN pools[p].blocks :
        /\ pools[p].defaultBlockCapacity = DefaultBlockCapacity
        /\ pools[p].blocks[i].size > 0
        /\ pools[p].blocks[i].usedSpace = pools[p].blocks[i].size
        /\ \E v \in views : v.buf = pools[p].blocks[i].memory /\ v.off > 0
        /\ pools[p].blocks[j].usedSpace < pools[p].blocks[j].size

\* the StringBlock objects constructed directly
Constructed == {k \in BlockIds : standalone[k] # NoBlock}

\* the lengths a block is asked about: the probe lengths, its capacity and
\* its free space
LengthsFor(block) ==
    ProbeLengths \cup {block.size, block.size - block.usedSpace}

\* C11: for a length below the maximum size value, canTakeStringOfLength is
\* true exactly when the free space is at least length + 1 (null-terminating) or
\* at least length (not null-terminating); so a block of capacity 0 takes only
\* the empty string and only when not null-terminating, and a block takes a
\* string as long as its capacity only when not null-terminating.
C11_CanTakeIffEnoughFreeSpace ==
    \A k \in Constructed :
        LET block == standalone[k]
            free == block.size - block.usedSpace
        IN  /\ \A length \in LengthsFor(block) \ {SizeMax} :
                canTakeStringOfLength(block, length) <=>
                    IF NullTerminateStrings
                    THEN free >= length + 1
                    ELSE free >= length
            /\ block.size = 0 =>
                \A length \in LengthsFor(block) \ {SizeMax} :
                    canTakeStringOfLength(block, length) <=>
                        (length = 0 /\ ~NullTerminateStrings)
            /\ canTakeStringOfLength(block, block.size) => ~NullTerminateStrings

\* C11 is exercised: a block of capacity 0 and a block filled partly, with
\* free space left, exist.
C11_Witness ==
    \E k, l \in Constructed :
        /\ standalone[k].size = 0
        /\ standalone[l].usedSpace > 0
        /\ standalone[l].usedSpace < standalone[l].size
        /\ canTakeStringOfLength(standalone[l], 0)

\* C12: canTakeStringOfLength(maximum size value) is false for every block,
\* whatever its capacity and fill level, null-terminating or not, and the
\* space required, computed in size_t, is the length plus the terminator's
\* unit without wrapping around.
C12_MaxLengthNeverTaken ==
    /\ \A k \in Constructed : ~canTakeStringOfLength(standalone[k], SizeMax)
    /\ \A length \in ProbeLengths :
        /\ getSpaceRequiredToStoreStringOfLength(length) >= length
        /\ getSpaceRequiredToStoreStringOfLength(length) =
                IF NullTerminateStrings /\ length # SizeMax
                THEN length + 1
                ELSE length

\* C12 is exercised: an empty block of the largest capacity and a block with
\* strings in it exist.
C12_Witness ==
    \E k, l \in Constructed :
        /\ standalone[k].size = MaxAlloc
        /\ standalone[k].usedSpace = 0
        /\ standalone[l].usedSpace > 0

\* what block.addString(string) on the capable block k does and returns
AppendsAtUsedOffset(k, string) ==
    LET block == standalone[k]
        after == standalone'[k]
        used == block.usedSpace
    IN  /\ after.memory = block.memory
        /\ after.size = block.size
        /\ after.usedSpace =
                used + (IF NullTerminateStrings THEN string.len + 1 ELSE string.len)
        /\ [buf |-> block.memory, off |-> used, len |-> string.len,
            str |-> SourceChars(string), issuer |-> k, pool |-> Direct]
                \in views'
        /\ ReadCells(heap', block.memory, used, string.len) = SourceChars(string)
        /\ ReadCells(heap', block.memory, 0, used) =
                ReadCells(heap, block.memory, 0, used)
        /\ NullTerminateStrings =>
                ReadCells(heap', block.memory, used + string.len, 1) = <<0>>

\* C13: addString on a block that can take the string writes the string at
\* the block's used offset, advances used by exactly the space required,
\* returns a view of the string's length that starts at the old used offset,
\* and, when null-terminating, leaves 0 in the unit right after the view.
C13_AddStringAppends ==
    [][\A k \in BlockIds : standalone'[k] # standalone[k] \/ heap' = heap =>
            \A string \in CallerStrings :
                (/\ canTakeStringOfLength(standalone[k], string.len)
                 /\ BlockAddString(k, string))
                => AppendsAtUsedOffset(k, string)]_vars

\* C13 is exercised: a block holds a non-empty string behind an earlier one,
\* and the block's used counter ends right after it.
C13_Witness ==
    \E k \in Constructed : \E v \in views :
        /\ v.buf = standalone[k].memory
        /\ v.off > 0
        /\ v.len > 0
        /\ StoredLast(standalone[k], v)
        /\ ReadCells(heap, v.buf, v.off, v.len) = v.str

\* an append to the block goes to the buffer at the offset
AppendsGoTo(block, buffer, offset) ==
    \A string \in CallerStrings :
        LET r == addString(block, string, SourceChars(string))
        IN  r.ok => /\ r.view.buf = buffer
                    /\ r.view.off = offset
                    /\ r.dest = offset
                    /\ r.block.memory = buffer

\* swap(a, b) exchanged buffer, capacity and used counter as one
ExchangesBlocks(a, b) ==
    LET wasA == standalone[a]
        wasB == standalone[b]
    IN  /\ standalone'[a].memory = wasB.memory
        /\ standalone'[a].size = wasB.size
        /\ standalone'[a].usedSpace = wasB.usedSpace
        /\ getFreeSpace(standalone'[a]) = wasB.size - wasB.usedSpace
        /\ standalone'[b].memory = wasA.memory
        /\ standalone'[b].size = wasA.size
        /\ standalone'[b].usedSpace = wasA.usedSpace
        /\ getFreeSpace(standalone'[b]) = wasA.size - wasA.usedSpace
        /\ heap' = heap
        /\ views' = views
        /\ AppendsGoTo(standalone'[a], wasB.memory, wasB.usedSpace)
        /\ AppendsGoTo(standalone'[b], wasA.memory, wasA.usedSpace)

\* C20: swap(a, b) exchanges buffer ownership, capacity and used counter
\* together: a has b's former buffer, capacity and free space and b has a's,
\* no unit of a buffer changes, and an append to a goes into the buffer b
\* owned, behind what b stored there.
C20_SwapExchangesBlocks ==
    [][\A a \in BlockIds : \A b \in BlockIds :
            SwapBlocks(a, b) => ExchangesBlocks(a, b)]_vars

\* C20 is exercised: a buffer holds a string returned by one block object and
\* behind it a string returned by the other, which owns the buffer now, and the
\* two blocks differ in capacity and in free space.
C20_Witness ==
    \E a, b \in Constructed : \E v, w \in views :
        /\ a # b
        /\ v.pool = Direct
        /\ w.pool = Direct
        /\ v.issuer = a
        /\ w.issuer = b
        /\ v.buf = standalone[b].memory
        /\ w.buf = standalone[b].memory
        /\ v.len > 0
        /\ w.off > v.off
        /\ standalone[a].size # standalone[b].size
        /\ getFreeSpace(standalone[a]) # getFreeSpace(standalone[b])
        /\ ReadCells(heap, v.buf, v.off, v.len) = v.str

\* the step sets the standard block capacity of pool p and nothing else
SetsCapacityOnly(p, capacity) ==
    /\ getStandardBlockCapacity(pools'[p]) = capacity
    /\ pools'[p].blocks = pools[p].blocks
    /\ \A q \in PoolIds \ {p} : pools'[q] = pools[q]
    /\ heap' = heap
    /\ views' = views

\* C14: the standard block capacity reads back as the value given to the
\* constructor or to the latest setStandardBlockCapacity, for any value, 0 and
\* the maximum size value included; setting it changes no block of the pool
\* (capacity, used, order); add does not change it, and a block add creates
\* has the capacity max(the value set last, space required).
C14_StandardBlockCapacity ==
    [][/\ \A p \in PoolIds : Builds(p) =>
            \A capacity \in StandardCapacities :
                Construct(p, capacity) =>
                    getStandardBlockCapacity(pools'[p]) = capacity
       /\ \A p \in PoolIds : \A capacity \in StandardCapacities :
            setStandardBlockCapacity(p, capacity) => SetsCapacityOnly(p, capacity)
       /\ \A p \in PoolIds : Touches(p) /\ pools'[p].blocks # pools[p].blocks =>
            \A string \in CallerStrings :
                AddStep(p, string) =>
                    /\ getStandardBlockCapacity(pools'[p]) =
                            getStandardBlockCapacity(pools[p])
                    /\ CreatedBlockHasCapacity(p, string)]_vars

\* C14 is exercised: a pool whose standard block capacity reads as the maximum
\* size value holds a block of capacity SmallCapacity with free space and a
\* smaller block of exactly the size of its string, created under two earlier
\* values.
C14_Witness ==
    \E p \in PoolIds : \E i, j \in DOMAIN pools[p].blocks :
        /\ getStandardBlockCapacity(pools[p]) = SizeMax
        /\ pools[p].blocks[i].size = SmallCapacity
        /\ pools[p].blocks[i].usedSpace < SmallCapacity
        /\ pools[p].blocks[j].size < SmallCapacity - 1
        /\ pools[p].blocks[j].size > 0
        /\ pools[p].blocks[j].usedSpace = pools[p].blocks[j].size

\* the blocks the pools of an argument list own, as a set
BlocksOf(sources) ==
    UNION {{pools[sources[i]].blocks[j] : j \in DOMAIN pools[sources[i]].blocks} :
            i \in DOMAIN sources}

\* after the step every source is empty and pool p alone owns their blocks
TransfersAllBlocks(p, sources) ==
    LET merged == pools'[p].blocks IN
    /\ \A i \in DOMAIN sources : getBlockCount(pools'[sources[i]]) = 0
    /\ {merged[j] : j \in DOMAIN merged} = BlocksOf(sources)
    /\ Cardinality(BuffersOf(merged)) = Len(merged)
    /\ \A q \in PoolIds \ {p} :
            BuffersOf(pools'[q].blocks) \cap BuffersOf(merged) = {}
    /\ heap' = heap

\* C15: when the merging constructor has returned, every source pool, the
\* first argument and each further one, owns no block, and every block the
\* sources owned is owned by the merged pool, once, and by no other pool.
C15_MergeEmptiesSources ==
    [][\A p \in PoolIds : Builds(p) =>
            \A sources \in SourceLists :
                Merge(p, sources) => TransfersAllBlocks(p, sources)]_vars

\* C15 is exercised: a pool owns blocks allocated through two or more other
\* pools, all of them moved from and empty, and a further pool that was not
\* merged still owns its block.
C15_Witness ==
    \E p, q \in PoolIds :
        /\ Cardinality({Allocator(pools[p].blocks[i]) :
                            i \in DOMAIN pools[p].blocks} \ {p}) >= 2
        /\ \A i \in DOMAIN pools[p].blocks :
                Allocator(pools[p].blocks[i]) # p =>
                    /\ pools[Allocator(pools[p].blocks[i])].status = "moved"
                    /\ getBlockCount(pools[Allocator(pools[p].blocks[i])]) = 0
        /\ q # p
        /\ pools[q].status = "live"
        /\ getBlockCount(pools[q]) > 0

SortedButFor(blocks, block) ==
    /\ block > 1
    /\ getFreeSpace(blocks[block]) < getFreeSpace(blocks[block - 1])
    /\ \A i, j \in DOMAIN blocks \ {block} :
            i < j => getFreeSpace(blocks[i]) <= getFreeSpace(blocks[j])

\* the repaired sequence holds the same blocks, sorted, and the blocks behind
\* the position are where they were
RepairedFrom(before, block, after) ==
    /\ Len(after) = Len(before)
    /\ {after[j] : j \in DOMAIN after} = {before[j] : j \in DOMAIN before}
    /\ Cardinality(BuffersOf(after)) = Len(after)
    /\ IsSorted(after)
    /\ \A j \in DOMAIN before : j > block => after[j] = before[j]

\* C18: from a sequence of blocks sorted by free space except that the block
\* just written has less free space than the one before it, the repair step
\* yields a permutation of the same blocks that is sorted by free space, and
\* every block behind the written block's position stays where it was.
C18_RepairSortsByOneRelocation ==
    [][\A block \in 1..MaxRepairBlocks : \A units \in 1..MaxFree :
            (/\ WriteThenBlockChanged(block, units)
             /\ SortedButFor(written(pools[1].blocks, block, units), block))
            => RepairedFrom(written(pools[1].blocks, block, units), block,
                            pools'[1].blocks)]_vars

\* C18 is exercised: the block written last is first of four blocks with four
\* different amounts of free space, and its buffer is not the one the first
\* block of a sorted sequence started with, so that it was moved past blocks
\* of different free space.
C18_Witness ==
    LET blocks == pools[1].blocks IN
    /\ Len(blocks) = 4
    /\ \A j \in 1..3 : getFreeSpace(blocks[j]) < getFreeSpace(blocks[j + 1])
    /\ blocks[1].memory = <<1, 4>>
    /\ blocks[2].memory = <<1, 1>>
    /\ blocks[3].memory = <<1, 2>>
    /\ blocks[4].memory = <<1, 3>>

\* the search starts at the last block for the length
TakesShortcut(blocks, length) ==
    getFirstBlockMaybeCapableOfStoringStringOfLength(blocks, length) = Len(blocks)

RunState(blocks, h, returned) == [blocks |-> blocks, heap |-> h, strings |-> returned]

\* one add of the string made alone on the run state st, and whether it
\* had to create a block
AddAlone(st, string) ==
    LET buffer == <<1, Cardinality({b \in DOMAIN st.heap : b[1] = 1}) + 1>>
        sel == findOrCreateBlockCapableOfStoringStringOfLength(
                    st.blocks, pools[1].defaultBlockCapacity, buffer, string.len)
        r == addStringToBlock(sel.blocks, sel.it, string, string.chars)
        heap1 == IF sel.created
                 THEN st.heap @@ (buffer :> [size |-> sel.blocks[sel.it].size,
                                             cells |-> <<>>, live |-> TRUE])
                 ELSE st.heap
    IN  [created |-> sel.created,
         possible |-> sel.created => AllocCanSucceed(sel.blocks[sel.it].size),
         blocks |-> r.blocks,
         heap |-> IF r.ok
                  THEN [heap1 EXCEPT ![r.memory].cells = WriteCells(@, r.dest, r.data)]
                  ELSE heap1,
         view |-> r.view]

\* the run states the task of thread t can end in when it runs alone from
\* st with j adds made: each add may fail to allocate, each push_back may
\* fail, and either ends the task
RECURSIVE TaskAlone(_, _, _)
TaskAlone(st, t, j) ==
    IF j = AddsPerThread THEN {st}
    ELSE LET a == AddAlone(st, ThreadString(t))
         IN  (IF a.created THEN {st} ELSE {})
             \cup (IF a.possible
                   THEN {RunState(a.blocks, a.heap, st.strings)}
                        \cup TaskAlone(RunState(a.blocks, a.heap,
                                                Append(st.strings, a.view)),
                                       t, j + 1)
                   ELSE {})

\* the run states after the tasks of the threads of `order` ran one after
\* the other, from any of the run states of `from`
RECURSIVE TasksInOrder(_, _)
TasksInOrder(from, order) ==
    IF order = <<>> THEN from
    ELSE TasksInOrder(UNION {TaskAlone(st, Head(order), 0) : st \in from},
                      Tail(order))

\* every order in which the threads of the set can run
OrdersOf(these) ==
    {order \in [1..Cardinality(these) -> these] :
        \A i, j \in DOMAIN order : i # j => order[i] # order[j]}

\* the run states some sequential execution of the tasks of the threads ends in
SequentialOutcomes(these) ==
    UNION {TasksInOrder({RunState(<<>>, <<>>, <<>>)}, order) :
            order \in OrdersOf(these)}

\* the units of a block's buffer a returned view occupies lie in a block of
\* the shared pool, inside its used part
WrittenIntoPool(v) ==
    \E i \in DOMAIN pools[1].blocks :
        /\ pools[1].blocks[i].memory = v.buf
        /\ v.off + getSpaceRequiredToStoreStringOfLength(v.len)
                <= pools[1].blocks[i].usedSpace

\* two returned views share a unit of a buffer
RegionsOverlap(v, w) ==
    /\ v.buf = w.buf
    /\ v.off < w.off + getSpaceRequiredToStoreStringOfLength(w.len)
    /\ w.off < v.off + getSpaceRequiredToStoreStringOfLength(v.len)

\* no task is between its lock and its unlock
Quiescent == \A t \in ThreadIds : threads[t].pc \in {"start", "done"}

\* C17: threads add to one shared pool, each holding poolMutex over its
\* calls.  In every interleaving, whenever no task is under way the pool's
\* blocks, the buffers and the vector of returned views are those of some
\* sequential execution of the tasks that ran, the blocks are sorted by free
\* space, and the returned views lie in the pool's blocks and no two of them
\* share a unit of a buffer.
C17_MutexSerialisesAdds ==
    /\ \A i \in DOMAIN strings :
            /\ WrittenIntoPool(strings[i])
            /\ \A j \in DOMAIN strings :
                    i # j => ~RegionsOverlap(strings[i], strings[j])
    /\ Quiescent =>
            /\ IsSorted(pools[1].blocks)
            /\ RunState(pools[1].blocks, heap, strings)
                    \in SequentialOutcomes({t \in ThreadIds : threads[t].pc = "done"})

\* C17 is exercised: every thread made all its adds, the thread that ran
\* first was not thread 1 and the one that ran last was not the last thread,
\* and one block holds strings of two threads.
C17_Witness ==
    /\ \A t \in ThreadIds : threads[t].pc = "done"
    /\ Len(strings) = MaxThreads * AddsPerThread
    /\ strings[1].len # ThreadString(1).len
    /\ strings[Len(strings)].len # ThreadString(MaxThreads).len
    /\ \E i, j \in DOMAIN strings :
            strings[i].buf = strings[j].buf /\ strings[i].len # strings[j].len

\* a view the step added to the views held
ReturnedNow(v) == v \in views' /\ v \notin views

\* C23: addString called directly on a block that cannot take the string
\* leaves the block's used counter and the contents of every buffer as they
\* were, and the view it returns has length 0 and points into no buffer of a
\* block: it is the view of nullChar.
C23_RefusedAddStringLeavesBlock ==
    [][\A k \in BlockIds :
            standalone[k] # NoBlock =>
                \A string \in CallerStrings :
                    (/\ ~canTakeStringOfLength(standalone[k], string.len)
                     /\ BlockAddString(k, string))
                    => /\ standalone'[k].usedSpace = standalone[k].usedSpace
                       /\ standalone'[k] = standalone[k]
                       /\ heap' = heap
                       /\ \E v \in views' :
                            /\ v.issuer = k /\ v.pool = Direct
                            /\ v.len = 0
                            /\ v.buf # standalone[k].memory
                            /\ v.buf \notin DOMAIN heap
                       /\ \A v \in views' :
                            ReturnedNow(v) =>
                                /\ v.len = 0
                                /\ v.buf = NullCharStorage]_vars

\* C23 is exercised: a block that holds a string has refused another one and
\* returned the view of nullChar.
C23_Witness ==
    \E k \in BlockIds :
        /\ standalone[k] # NoBlock
        /\ standalone[k].usedSpace > 0
        /\ getFreeSpace(standalone[k]) > 0
        /\ \E v \in views :
                v.issuer = k /\ v.pool = Direct /\ v.buf = NullCharStorage
        /\ \E v \in views :
                v.issuer = k /\ v.pool = Direct /\ v.buf = standalone[k].memory

\* the units of storage a view occupies, the slot of its terminator included
UnitsOf(v) ==
    {<<v.buf, i>> :
        i \in v.off..(v.off + getSpaceRequiredToStoreStringOfLength(v.len) - 1)}

Disjoint(v, w) == UnitsOf(v) \cap UnitsOf(w) = {}

\* C22: any two views add has returned, on one pool or on pools merged into
\* one later, occupy disjoint storage, the slot of the terminator included:
\* the view an add returns shares no unit with a view returned before, and
\* the views held after any step, a merge included, are pairwise disjoint.
C22_ViewsOccupyDisjointStorage ==
    [][/\ \A v \in views' : \A w \in views' : v # w => Disjoint(v, w)
       /\ \A p \in PoolIds : Touches(p) =>
            \A string \in CallerStrings :
                AddStep(p, string) =>
                    \A v \in {IssuedView(p, string)} :
                        \A w \in views : Disjoint(v, w)]_vars

\* C22 is exercised: in a null-terminating build a merged pool holds a view a
\* source pool returned and a view it returned itself, the second right
\* behind the terminator of the first in the same buffer.
C22_Witness ==
    /\ NullTerminateStrings
    /\ \E v, w \in views :
        /\ v.pool = w.pool
        /\ v.issuer # v.pool
        /\ w.issuer = w.pool
        /\ v.len > 0 /\ w.len > 0
        /\ w.buf = v.buf
        /\ w.off = v.off + v.len + 1

\* the block records of every pool
AllBlocks(ps) == UNION {Range(ps[q].blocks) : q \in PoolIds}

\* the number of blocks of the pools q, q + 1, ...
RECURSIVE CountBlocks(_, _)
CountBlocks(ps, q) ==
    IF q \notin PoolIds THEN 0 ELSE Len(ps[q].blocks) + CountBlocks(ps, q + 1)

\* the blocks of the vector that are not blocks of the vector before
ChangedBlocks(old, new) == {block \in Range(new) : block \notin Range(old)}

\* add(string) on pool p changed one block at most, the one written, whose
\* used counter rose by the space required (from 0 for a new block); every
\* other block is the record it was, in a vector one longer at most, and no
\* other buffer and no other pool changed
ChangesOneBlock(p, string) ==
    LET old == pools[p].blocks
        new == pools'[p].blocks
        units == getSpaceRequiredToStoreStringOfLength(string.len)
        changed == ChangedBlocks(old, new)
    IN  /\ Cardinality(changed) <= 1
        /\ units > 0 => Cardinality(changed) = 1
        /\ \A block \in changed :
                \/ \E was \in Range(old) :
                        /\ was.memory = block.memory
                        /\ was.size = block.size
                        /\ block.usedSpace = was.usedSpace + units
                \/ /\ block.memory \notin BuffersOf(old)
                   /\ block.usedSpace = units
                   /\ Len(new) = Len(old) + 1
        /\ \A was \in Range(old) :
                was \in Range(new) \/ \E block \in changed : block.memory = was.memory
        /\ Len(new) \in {Len(old), Len(old) + 1}
        /\ Cardinality(BuffersOf(new)) = Len(new)
        /\ \A b \in DOMAIN heap :
                (\A block \in changed : block.memory # b) => heap'[b] = heap[b]
        /\ \A q \in PoolIds : q # p => pools'[q] = pools[q]

\* no block's capacity changes and no block's used counter decreases
BlocksOnlyFill ==
    \A was \in AllBlocks(pools) : \A block \in AllBlocks(pools') :
        block.memory = was.memory =>
            /\ block.size = was.size
            /\ block.usedSpace >= was.usedSpace

\* the pools hold the same block records as before, as many as before
OnlyPermutesBlocks ==
    /\ AllBlocks(pools') = AllBlocks(pools)
    /\ CountBlocks(pools', 1) = CountBlocks(pools, 1)
    /\ Cardinality(AllBlocks(pools')) = CountBlocks(pools', 1)

\* C21: each successful add changes the used counter of one block, the
\* selected or the new one, raising it by the space required for the string,
\* and leaves the capacity, the used counter and the buffer contents of every
\* other block as they were; no step changes a block's capacity or lowers a
\* block's used counter; reordering and merging only permute blocks.
C21_AddFillsOneBlockOnly ==
    [][/\ BlocksOnlyFill
       /\ \A p \in PoolIds :
            /\ Touches(p) =>
                \A string \in CallerStrings :
                    AddStep(p, string) => ChangesOneBlock(p, string)
            /\ Builds(p) => OnlyPermutesBlocks]_vars

\* C21 is exercised: a pool merged from others holds three blocks with three
\* different used counters, and the block written last, once behind the
\* others, is now the first.
C21_Witness ==
    \E p \in PoolIds : \E v \in views :
        LET blocks == pools[p].blocks IN
        /\ Len(blocks) = 3
        /\ \E i \in 1..3 : Allocator(blocks[i]) # p
        /\ v.issuer = p
        /\ v.off > 0
        /\ StoredLast(blocks[1], v)
        /\ getSpaceRequiredToStoreStringOfLength(v.len) > getFreeSpace(blocks[3])
        /\ blocks[1].usedSpace # blocks[2].usedSpace
        /\ blocks[2].usedSpace # blocks[3].usedSpace
        /\ blocks[1].usedSpace # blocks[3].usedSpace

\* the step is a merging construction of pool p: p comes to exist and other
\* pools are left moved from
MergesInto(p) ==
    /\ Builds(p)
    /\ \E q \in PoolIds : pools[q].status = "live" /\ pools'[q].status = "moved"

\* the capacity of the block an add of a string of the length would create
\* in the pool, when none of its blocks can take the string
CapacityOfCreatedBlock(pool, length) ==
    LET sel == findOrCreateBlockCapableOfStoringStringOfLength(
                    pool.blocks, pool.defaultBlockCapacity, FreshBuffer(1), length)
    IN  sel.blocks[sel.it].size

\* max(8192, space required)
DefaultOrRequired(length) ==
    IF getSpaceRequiredToStoreStringOfLength(length) > 8192
    THEN getSpaceRequiredToStoreStringOfLength(length)
    ELSE 8192

\* pool p holds a block allocated through another pool: it was merged
HoldsForeignBlock(p) ==
    \E i \in DOMAIN pools[p].blocks : Allocator(pools[p].blocks[i]) # p

\* C24: the pool built by the merging constructor takes none of its sources'
\* standard block capacities: for every length none of its blocks can take,
\* an add creates a block of capacity max(8192, space required); add leaves
\* the standard capacity alone, and the block a later add on a merged pool
\* creates has that capacity, in the pool and on the heap.
C24_MergedPoolHasDefaultCapacity ==
    [][\A p \in PoolIds :
            /\ MergesInto(p) =>
                \A length \in ProbeLengths :
                    Capable(pools'[p].blocks, length) = {} =>
                        CapacityOfCreatedBlock(pools'[p], length)
                            = DefaultOrRequired(length)
            /\ (Touches(p) /\ pools'[p].blocks # pools[p].blocks) =>
                \A string \in CallerStrings :
                    AddStep(p, string) =>
                        /\ pools'[p].defaultBlockCapacity = pools[p].defaultBlockCapacity
                        /\ (HoldsForeignBlock(p) /\ Capable(pools[p].blocks, string.len) = {}) =>
                            \E k \in Owning(pools'[p].blocks, FreshBuffer(p)) :
                                /\ pools'[p].blocks[k].size = DefaultOrRequired(string.len)
                                /\ heap'[FreshBuffer(p)].size = DefaultOrRequired(string.len)]_vars

\* C24 is exercised: a pool merged from a pool of standard capacity 0 and a
\* pool of standard capacity SmallCapacity holds a block of each of them and a
\* block of 8192 units it created itself for a string neither could take.
C24_Witness ==
    \E p \in PoolIds : \E q, r \in PoolIds :
        LET blocks == pools[p].blocks IN
        /\ pools[p].status = "live"
        /\ pools[q].status = "moved" /\ pools[q].defaultBlockCapacity = 0
        /\ pools[r].status = "moved" /\ pools[r].defaultBlockCapacity = SmallCapacity
        /\ \E i, j, k \in DOMAIN blocks :
            /\ Allocator(blocks[i]) = q
            /\ Allocator(blocks[j]) = r
            /\ Allocator(blocks[k]) = p
            /\ blocks[k].size = 8192
            /\ blocks[k].usedSpace > 0
            /\ heap[blocks[k].memory].size = 8192

====
